---- MODULE Spec2Model ----
(***************************************************************************)
(* Model of the humanreadable crate (src/src/lib.rs): the IEC prefix      *)
(* table, iec_position, IEC::new, IEC::get_val, the Into<IEC>             *)
(* conversions, the derived comparisons and the Display rendering.        *)
(*                                                                         *)
(* TLC integers are 32 bits wide, so a u64 is held as a little-endian     *)
(* sequence of NLimbs limbs in base 1024 (one limb per IEC prefix step);  *)
(* the top limb holds bits 60.. and is below 16 for a u64.  An f64 that   *)
(* the program can produce is held exactly as a fixed-point limb sequence *)
(* with FracLimbs limbs after the point.                                   *)
(***************************************************************************)
EXTENDS Integers, Sequences, FiniteSets, TLC

VARIABLES op, x, index, prevX, prevIndex, src, a, b, got, out, cmp

vars == <<op, x, index, prevX, prevIndex, src, a, b, got, out, cmp>>

(***************************************************************************)
(* Limb arithmetic                                                         *)
(***************************************************************************)
Base == 1024
NLimbs == 7
FracLimbs == 6
FixLimbs == FracLimbs + NLimbs

\* the tuple <<f[1], ..., f[n]>>
RECURSIVE Tup(_, _)
Tup(f, n) == IF n = 0 THEN <<>> ELSE Append(Tup(f, n - 1), f[n])

\* carry (or borrow) propagation; the top limb keeps whatever is left
RECURSIVE NormFrom(_, _, _, _)
NormFrom(s, k, carry, acc) ==
    LET t == s[k] + carry
    IN IF k = Len(s) THEN Append(acc, t)
       ELSE NormFrom(s, k + 1, t \div Base, Append(acc, t % Base))
Norm(s) == NormFrom(s, 1, 0, <<>>)

Add(s, t) == Norm(Tup([k \in 1..Len(s) |-> s[k] + t[k]], Len(s)))
Sub(s, t) == Norm(Tup([k \in 1..Len(s) |-> s[k] - t[k]], Len(s)))
MulSmall(s, n) == Norm(Tup([k \in 1..Len(s) |-> s[k] * n], Len(s)))

RECURSIVE LtFrom(_, _, _)
LtFrom(s, t, k) == IF k = 0 THEN FALSE
                   ELSE IF s[k] # t[k] THEN s[k] < t[k]
                   ELSE LtFrom(s, t, k-1)
Lt(s, t) == LtFrom(s, t, Len(s))
Ge(s, t) == ~Lt(s, t)
Le(s, t) == ~Lt(t, s)

Zero == Tup([k \in 1..NLimbs |-> 0], NLimbs)
FromInt(n) == Norm(Tup([k \in 1..NLimbs |-> IF k = 1 THEN n ELSE 0], NLimbs))
\* m * 1024^i
Scaled(m, i) == Tup([k \in 1..NLimbs |-> IF k = i + 1 THEN m ELSE 0], NLimbs)
TwoTo64 == Scaled(16, 6)
U64Max == Sub(TwoTo64, FromInt(1))
IsU64(s) == Len(s) = NLimbs /\ (\A k \in 1..NLimbs : s[k] >= 0) /\ Lt(s, TwoTo64)

(***************************************************************************)
(* const iec_prefix: [u64; 7]                                              *)
(***************************************************************************)
iec_prefix == [i \in 0..6 |-> Scaled(1, i)]

(***************************************************************************)
(* fn iec_position(x: u64) -> usize                                        *)
(***************************************************************************)
RECURSIVE iec_position_scan(_, _)
iec_position_scan(v, item) ==
    IF item >= 6 THEN 7
    ELSE IF Ge(v, iec_prefix[item]) /\ Lt(v, iec_prefix[item+1]) THEN item
    ELSE iec_position_scan(v, item + 1)

\* the upper bound taken inclusive
RECURSIVE iec_position_scan_inclusive(_, _)
iec_position_scan_inclusive(v, item) ==
    IF item >= 6 THEN 7
    ELSE IF Ge(v, iec_prefix[item]) /\ Le(v, iec_prefix[item+1]) THEN item
    ELSE iec_position_scan_inclusive(v, item + 1)
iec_position_inclusive(v) == iec_position_scan_inclusive(v, 0)

\* the last table entry returned when the scan finds nothing
iec_position_clamped(v) == IF iec_position_scan(v, 0) = 7 THEN 6 ELSE iec_position_scan(v, 0)

iec_position(v) == iec_position_scan(v, 0)

(***************************************************************************)
(* `x as f64`: round to nearest, ties to even, 53 significant bits.  The   *)
(* result is an integer, held as limbs (2^64 is the largest, top limb 16). *)
(***************************************************************************)
MantissaBits == 53

RECURSIVE Pow2(_)
Pow2(n) == IF n = 0 THEN 1 ELSE 2 * Pow2(n - 1)

RECURSIVE BitLen(_)
BitLen(n) == IF n = 0 THEN 0 ELSE 1 + BitLen(n \div 2)

RECURSIVE TopLimb(_, _)
TopLimb(s, k) == IF k = 0 THEN 0 ELSE IF s[k] # 0 THEN k ELSE TopLimb(s, k - 1)

Bits(s) == LET t == TopLimb(s, Len(s))
           IN IF t = 0 THEN 0 ELSE 10 * (t - 1) + BitLen(s[t])

U64ToF64(v) ==
    IF Bits(v) <= MantissaBits THEN v
    ELSE LET sh == Bits(v) - MantissaBits
             low == v[1] + Base * v[2]
             rem == low % Pow2(sh)
             half == Pow2(sh - 1)
             odd == (low \div Pow2(sh)) % 2 = 1
             up == rem > half \/ (rem = half /\ odd)
             kept == low - rem + (IF up THEN Pow2(sh) ELSE 0)
         IN Norm(Tup([k \in 1..NLimbs |-> IF k = 1 THEN kept ELSE IF k = 2 THEN 0 ELSE v[k]], NLimbs))

\* an integer-valued f64 as a fixed-point number
ToFix(n) == Tup([k \in 1..FixLimbs |-> IF k > FracLimbs THEN n[k - FracLimbs] ELSE 0], FixLimbs)

\* f64 division by a table entry: a power of two, so the quotient is exact
F64Div(p, q) ==
    LET e == CHOOSE i \in DOMAIN iec_prefix : q = ToFix(iec_prefix[i])
    IN Tup([k \in 1..FixLimbs |-> IF k + e <= FixLimbs THEN p[k + e] ELSE 0], FixLimbs)

(***************************************************************************)
(* enum IEC and IEC::new                                                   *)
(***************************************************************************)
Variants == <<"B", "KiB", "MiB", "GiB", "TiB", "PiB", "EiB">>
Discriminant(name) == CHOOSE d \in 0..6 : Variants[d + 1] = name

IEC(name, f) == [kind |-> "IEC", variant |-> name, f |-> f]
Panic(msg) == [kind |-> "panic", msg |-> msg]

IEC_new(v) ==
    LET idx == iec_position(v)
    IN IF idx \notin DOMAIN iec_prefix THEN Panic("index out of bounds")
       ELSE LET item == ToFix(U64ToF64(iec_prefix[idx]))
                thing == ToFix(U64ToF64(v))
                quot == F64Div(thing, item)
            IN IF idx \in 0..6 THEN IEC(Variants[idx + 1], quot)
               ELSE Panic("unreachable")

get_val(self) == self.f

(***************************************************************************)
(* #[derive(PartialEq, PartialOrd)]: the discriminants are compared first, *)
(* then the payloads (no payload the constructor makes is a NaN)           *)
(***************************************************************************)
f64_partial_cmp(p, q) == IF Lt(p, q) THEN "Less" ELSE IF Lt(q, p) THEN "Greater" ELSE "Equal"

\* the payloads left out of the ordering
partial_cmp_tag_only(l, r) ==
    IF Discriminant(l.variant) < Discriminant(r.variant) THEN "Less"
    ELSE IF Discriminant(l.variant) > Discriminant(r.variant) THEN "Greater"
    ELSE "Equal"

partial_cmp(l, r) ==
    IF Discriminant(l.variant) < Discriminant(r.variant) THEN "Less"
    ELSE IF Discriminant(l.variant) > Discriminant(r.variant) THEN "Greater"
    ELSE f64_partial_cmp(l.f, r.f)

eq(l, r) == l.variant = r.variant /\ f64_partial_cmp(l.f, r.f) = "Equal"
lt(l, r) == partial_cmp(l, r) = "Less"
le(l, r) == partial_cmp(l, r) \in {"Less", "Equal"}

(***************************************************************************)
(* impl fmt::Display for IEC: "{:.*}<suffix>" with precision 2.  core::fmt *)
(* prints the exact decimal expansion of the f64 rounded half to even.     *)
(***************************************************************************)
Precision == 2
Digits == <<"0", "1", "2", "3", "4", "5", "6", "7", "8", "9">>
Digit(d) == Digits[d + 1]

RECURSIVE Pow10(_)
Pow10(n) == IF n = 0 THEN 1 ELSE 10 * Pow10(n - 1)

\* long division by a small divisor, from the top limb down
RECURSIVE Rem(_, _, _)
Rem(s, k, d) == IF k > Len(s) THEN 0 ELSE (Rem(s, k + 1, d) * Base + s[k]) % d
DivSmall(s, d) == Tup([k \in 1..Len(s) |-> (Rem(s, k + 1, d) * Base + s[k]) \div d], Len(s))
ModSmall(s, d) == Rem(s, 1, d)

RECURSIVE DecStr(_)
DecStr(n) == IF TopLimb(n, Len(n)) = 0 THEN ""
             ELSE DecStr(DivSmall(n, 10)) \o Digit(ModSmall(n, 10))

\* the digits past the precision cut off instead of rounded
fmt_f64_truncated(f) ==
    LET c == MulSmall(f, Pow10(Precision))
        whole == SubSeq(c, FracLimbs + 1, FixLimbs)
        ip == DivSmall(whole, Pow10(Precision))
        fp == ModSmall(whole, Pow10(Precision))
    IN (IF TopLimb(ip, NLimbs) = 0 THEN "0" ELSE DecStr(ip))
       \o "." \o Digit(fp \div 10) \o Digit(fp % 10)

fmt_f64(f) ==
    LET c == MulSmall(f, Pow10(Precision))
        fracpart == SubSeq(c, 1, FracLimbs)
        whole == SubSeq(c, FracLimbs + 1, FixLimbs)
        half == Tup([k \in 1..FracLimbs |-> IF k = FracLimbs THEN Base \div 2 ELSE 0], FracLimbs)
        up == Lt(half, fracpart) \/ (fracpart = half /\ whole[1] % 2 = 1)
        cents == IF up THEN Add(whole, FromInt(1)) ELSE whole
        ip == DivSmall(cents, Pow10(Precision))
        fp == ModSmall(cents, Pow10(Precision))
    IN (IF TopLimb(ip, NLimbs) = 0 THEN "0" ELSE DecStr(ip))
       \o "." \o Digit(fp \div 10) \o Digit(fp % 10)

Display(self) == fmt_f64(self.f) \o self.variant

(***************************************************************************)
(* into_trait!: `self as u64` for the ten integer types                    *)
(***************************************************************************)
Types == { [name |-> "u8", width |-> 8, signed |-> FALSE],
           [name |-> "u16", width |-> 16, signed |-> FALSE],
           [name |-> "u32", width |-> 32, signed |-> FALSE],
           [name |-> "usize", width |-> 64, signed |-> FALSE],
           [name |-> "u64", width |-> 64, signed |-> FALSE],
           [name |-> "i8", width |-> 8, signed |-> TRUE],
           [name |-> "i16", width |-> 16, signed |-> TRUE],
           [name |-> "i32", width |-> 32, signed |-> TRUE],
           [name |-> "isize", width |-> 64, signed |-> TRUE],
           [name |-> "i64", width |-> 64, signed |-> TRUE] }

TwoTo(w) == Scaled(Pow2(w % 10), w \div 10)

\* zero extension for the signed types too
as_u64_zero_extended(ty, neg, mag) == IF neg THEN Sub(TwoTo(ty.width), mag) ELSE mag

\* the bit pattern of the value at the type's width, then zero or sign extension
as_u64(ty, neg, mag) ==
    LET bits == IF neg THEN Sub(TwoTo(ty.width), mag) ELSE mag
        signbit == ty.signed /\ Ge(bits, TwoTo(ty.width - 1))
    IN IF signbit THEN Add(bits, Sub(TwoTo64, TwoTo(ty.width))) ELSE bits

into(ty, neg, mag) == IEC_new(as_u64(ty, neg, mag))

(***************************************************************************)
(* Magnitudes the callers supply: around each multiple of a table entry,   *)
(* around the last magnitude of bucket 5 that `as f64` rounds down, and    *)
(* the values of the tests                                                 *)
(***************************************************************************)
MaxMul == 1
MaxDelta == 1
\* half the spacing of the f64 values in [2^59, 2^60)
HalfUlp == Pow2(60 - MantissaBits - 1)

\* test_iec_position's magnitudes, two decimal ties (1.125, 1.375), the
\* first integers an f64 cannot hold, and the extremes
Samples == { FromInt(5), FromInt(5000), FromInt(1073741824),
             FromInt(1152), FromInt(1408),
             Add(Scaled(8, 5), FromInt(1)), Add(Scaled(8, 5), FromInt(3)),
             Scaled(8, 6), U64Max }

Inputs == {Zero} \cup Samples
          \cup { Add(Scaled(m, i), FromInt(d)) : m \in 1..MaxMul, i \in 0..6, d \in 0..MaxDelta }
          \cup UNION { { Sub(Scaled(m, i), FromInt(d)) : d \in {e \in 0..MaxDelta : i > 0 \/ e <= m} } :
                        m \in 1..MaxMul, i \in 0..6 }
          \cup { Sub(Scaled(1, 6), FromInt(d)) : d \in (HalfUlp - MaxDelta)..(HalfUlp + MaxDelta) }

\* the values of an integer type: near zero, near its limits, and the samples that fit
Limit(ty) == IF ty.signed THEN TwoTo(ty.width - 1) ELSE TwoTo(ty.width)
Candidates(ty) == { FromInt(d) : d \in 0..(MaxDelta + 1) }
                  \cup { Sub(Limit(ty), FromInt(d)) : d \in 0..(MaxDelta + 1) }
                  \cup { FromInt(5), FromInt(5000) }
NonNegative(ty) == { m \in Candidates(ty) : Lt(m, Limit(ty)) }
Negative(ty) == IF ty.signed THEN { m \in Candidates(ty) : m # Zero /\ Le(m, Limit(ty)) } ELSE {}

(***************************************************************************)
(* The caller: in one scope it makes up to two calls of iec_position or    *)
(* IEC::new, or one conversion, and keeps the results (x, index and a of   *)
(* the last call, prevX, prevIndex and b of the one before) and the result *)
(* of the last get_val, Display or comparison on the values.               *)
(***************************************************************************)
NoIndex == Len(Variants) + 2
None == [kind |-> "none"]

Init ==
    /\ op = "init"
    /\ x = Zero
    /\ index = NoIndex
    /\ prevX = Zero
    /\ prevIndex = NoIndex
    /\ src = None
    /\ a = None
    /\ b = None
    /\ got = <<>>
    /\ out = ""
    /\ cmp = None

\* a direct call of iec_position, as test_iec_position makes
Position(v) ==
    /\ prevIndex = NoIndex
    /\ src = None
    /\ op' = "position"
    /\ x' = v
    /\ index' = iec_position(v)
    /\ prevX' = x
    /\ prevIndex' = index
    /\ a' = None
    /\ b' = a
    /\ src' = None
    /\ got' = <<>>
    /\ out' = ""
    /\ cmp' = None

\* IEC::new(v)
New(v) ==
    /\ prevIndex = NoIndex
    /\ src = None
    /\ op' = "new"
    /\ x' = v
    /\ index' = iec_position(v)
    /\ prevX' = x
    /\ prevIndex' = index
    /\ a' = IEC_new(v)
    /\ b' = a
    /\ src' = None
    /\ got' = <<>>
    /\ out' = ""
    /\ cmp' = None

\* <ty as Into<IEC>>::into(value)
Into(ty, neg, mag) ==
    /\ op = "init"
    /\ op' = "into"
    /\ x' = as_u64(ty, neg, mag)
    /\ index' = iec_position(as_u64(ty, neg, mag))
    /\ prevX' = x
    /\ prevIndex' = index
    /\ a' = into(ty, neg, mag)
    /\ b' = a
    /\ src' = [kind |-> "int", ty |-> ty, neg |-> neg, mag |-> mag]
    /\ got' = <<>>
    /\ out' = ""
    /\ cmp' = None

GetVal ==
    /\ a.kind = "IEC"
    /\ op' = "get_val"
    /\ got' = get_val(a)
    /\ out' = ""
    /\ cmp' = None
    /\ UNCHANGED <<x, index, prevX, prevIndex, src, a, b>>

Fmt ==
    /\ a.kind = "IEC"
    /\ op' = "fmt"
    /\ out' = Display(a)
    /\ got' = <<>>
    /\ cmp' = None
    /\ UNCHANGED <<x, index, prevX, prevIndex, src, a, b>>

\* b == a, b < a, b <= a on the two values held (b is the older one)
Compare ==
    /\ a.kind = "IEC"
    /\ b.kind = "IEC"
    /\ op' = "compare"
    /\ cmp' = [kind |-> "cmp", eq |-> eq(b, a), lt |-> lt(b, a), le |-> le(b, a)]
    /\ got' = <<>>
    /\ out' = ""
    /\ UNCHANGED <<x, index, prevX, prevIndex, src, a, b>>

\* the results go out of scope
Drop ==
    /\ op # "init"
    /\ op' = "init"
    /\ x' = Zero
    /\ index' = NoIndex
    /\ prevX' = Zero
    /\ prevIndex' = NoIndex
    /\ src' = None
    /\ a' = None
    /\ b' = None
    /\ got' = <<>>
    /\ out' = ""
    /\ cmp' = None

Next ==
    \/ \E v \in Inputs : Position(v)
    \/ \E v \in Inputs : New(v)
    \/ \E ty \in Types : \E mag \in NonNegative(ty) : Into(ty, FALSE, mag)
    \/ \E ty \in Types : \E mag \in Negative(ty) : Into(ty, TRUE, mag)
    \/ GetVal
    \/ Fmt
    \/ Compare
    \/ Drop

Spec == Init /\ [][Next]_vars

(***************************************************************************)
(* Properties                                                              *)
(***************************************************************************)
One == FromInt(1)
EiBThreshold == Scaled(1, 6)
Called == index # NoIndex
InRange(v) == Ge(v, One) /\ Lt(v, EiBThreshold)
Suffixes == <<"B", "KiB", "MiB", "GiB", "TiB", "PiB", "EiB">>

\* C1: for 1 <= x < 1024^6, iec_position(x) is the unique i in 0..5 with
\* 1024^i <= x < 1024^(i+1) (the index of the highest nonzero base-1024
\* digit): 1024^i gives i and 1024^i - 1 gives i-1.
C1_HalfOpenBucket ==
    (Called /\ InRange(x)) =>
        /\ index \in 0..5
        /\ index = TopLimb(x, NLimbs) - 1
        /\ Ge(x, Scaled(1, index)) /\ Lt(x, Scaled(1, index + 1))
        /\ \A j \in 0..5 : (Ge(x, Scaled(1, j)) /\ Lt(x, Scaled(1, j + 1))) => j = index
        /\ \A i \in 1..5 : /\ x = Scaled(1, i) => index = i
                           /\ x = Sub(Scaled(1, i), One) => index = i - 1
        /\ x = FromInt(1023) => index = 0
        /\ x = FromInt(5000) => index = 1
        /\ x = FromInt(1073741824) => index = 3

C1_Witness == op = "position" /\ x = FromInt(1024) /\ index = 1

\* C2: magnitude 0 is placed in bucket 0, IEC::new(0) is B(0) and is
\* displayed as "0.00B".
C2_ZeroInBucketZero ==
    /\ (Called /\ x = Zero) => index = 0
    /\ (op \in {"new", "into"} /\ x = Zero) => a = IEC("B", ToFix(Zero))
    /\ (op = "fmt" /\ x = Zero) => out = "0.00B"

\* C3: iec_position is monotone non-decreasing: x1 < x2 implies
\* iec_position(x1) <= iec_position(x2).
C3_Monotone ==
    (Called /\ prevIndex # NoIndex) =>
        /\ Lt(prevX, x) => prevIndex <= index
        /\ Lt(x, prevX) => index <= prevIndex

\* C4: iec_position(x) = 7 exactly when x >= 1024^6.
C4_SentinelIffAboveTable == Called => (index = 7 <=> Ge(x, EiBThreshold))

\* C5: IEC::new(x) reads iec_prefix only at an index in 0..6 and returns a
\* value for every u64 x.
C5_NewInBounds == op \in {"new", "into"} => (index \in 0..6 /\ a.kind = "IEC")

\* C6: for nonzero x outside the sentinel bucket the payload of IEC::new(x)
\* is x / 1024^i for i = iec_position(x) (exactly where an f64 holds x, to
\* within the rounding of `x as f64` otherwise) and lies in [1.0, 1024.0);
\* for x in [1024, 1024^2 - 1] the value is KiB(x/1024).
ShiftUp(f, i) == Tup([k \in 1..FixLimbs |-> IF k > i THEN f[k - i] ELSE 0], FixLimbs)
Distance(f, g) == IF Lt(f, g) THEN Sub(g, f) ELSE Sub(f, g)
C6_PayloadInUnitRange ==
    (op = "get_val" /\ x # Zero /\ index # 7) =>
        /\ a.variant = Suffixes[index + 1]
        /\ Le(ToFix(One), got) /\ Lt(got, ToFix(FromInt(1024)))
        /\ IF Bits(x) <= MantissaBits
           THEN ShiftUp(got, index) = ToFix(x)
           ELSE Le(Distance(ShiftUp(got, index), ToFix(x)),
                   ToFix(FromInt(Pow2(Bits(x) - MantissaBits - 1))))
        /\ (Ge(x, FromInt(1024)) /\ Lt(x, Scaled(1, 2))) =>
              a.variant = "KiB" /\ ShiftUp(got, 1) = ToFix(x)

C8_SameVariantOrder ==
    (op = "compare" /\ a.variant = b.variant) =>
        /\ cmp.eq <=> (get_val(b) = get_val(a))
        /\ cmp.lt <=> Lt(get_val(b), get_val(a))
        /\ Le(prevX, x) => cmp.le

C8_Witness == op = "compare" /\ a.variant = b.variant /\ Lt(prevX, x) /\ cmp.lt /\ ~cmp.eq

\* C9: Into<IEC> for a signed type passes 2^64 + v to IEC::new for every
\* negative v, which is >= 2^63 > 1024^6 and lands in bucket 7; every
\* non-negative input of any type is passed unchanged.
C9_SignedCast ==
    op = "into" =>
        IF src.neg
        THEN /\ Add(x, src.mag) = TwoTo64
             /\ Ge(x, TwoTo(63)) /\ Lt(EiBThreshold, TwoTo(63))
             /\ index = 7
        ELSE x = src.mag

C9_Witness == op = "into" /\ src.neg /\ src.ty.name = "i8" /\ src.mag = One /\ x = U64Max

\* C10: iec_position never returns 6, IEC::new never returns the EiB
\* variant and never reaches its unreachable!() arm.
C10_NeverIndexSix ==
    /\ index # 6 /\ prevIndex # 6
    /\ \A v \in {a, b} : /\ v.kind = "IEC" => v.variant # "EiB"
                         /\ v.kind = "panic" => v.msg # "unreachable"

C10_Witness == op = "new" /\ Ge(x, EiBThreshold) /\ index = 7 /\ a.kind = "panic"
====
